---- MODULE Spec2Model ----
(***************************************************************************)
(* Model of the Twitch sub-goal overlay server (src/db.js): the OAuth      *)
(* callback, the token refresh helper, the subscriber-count helper, the    *)
(* goal endpoints and startup, as an event-loop state machine.  Every      *)
(* `await` of the source is a point where another request may run, so a    *)
(* handler is one action per stretch of code between two awaits.           *)
(***************************************************************************)
EXTENDS Integers, Sequences, FiniteSets, TLC

\* ------------------------------------------------------------------ bounds
\* Highest token number the provider issues in one run (token 1 is the one
\* a durable row may already hold at process start).
MaxTokens == 3

\* Requests (of any endpoint) accepted in one run.
MaxRequests == 2

\* Request slots: how many requests can be in flight at once.
Requests == {"r1", "r2"}

\* ------------------------------------------------------------- input spaces
\* Keys of tokensByChannel / goalsByChannel / twitch_tokens (lowercase).
Channels == {"foo", "test"}

\* Values of the `channel` query parameter; "" is the absent parameter.
ChannelParams == {"", "Foo", "test"}

\* String.prototype.toLowerCase on the channel names of the model.
ToLowerCase(s) == IF s = "Foo" THEN "foo" ELSE s

\* Provider-assigned user ids the identity endpoint can answer with.
BroadcasterIds == {1, 2}

\* JS undefined / null / '' for a token, an id or a number.
Undefined == 0

\* JS null as the result of getCurrentSubsForChannel, and a field that a
\* provider response does not carry.
Null == -1
Missing == -1

\* Status of an outbound call that failed with no response (err.response
\* is undefined).
NoResponse == -2

\* A channel with no entry in a store.
NoRec == [absent |-> TRUE]

Rec(access, refresh, bid) ==
    [access_token |-> access, refresh_token |-> refresh, broadcaster_id |-> bid]

\* ------------------------------------------------------------------- state
VARIABLES
    phase,            \* position of start(): "initDb", "loadTokens", "listening"
    DATABASE_URL,     \* process.env.DATABASE_URL is set
    tokensByChannel,  \* in-memory token store
    twitch_tokens,    \* durable table, one row per channel
    goalsByChannel,   \* in-memory goal store (Undefined: no entry)
    req,              \* the in-flight requests, one record per slot
    accepted,         \* number of requests accepted so far
    nextToken,        \* provider: number of the next token pair it issues
    dbFailed,         \* some query of this run has thrown
    restarted,        \* the process has been started again after a stop
    failedWrite       \* channels whose durable write has thrown in this run

vars == <<phase, DATABASE_URL, tokensByChannel, twitch_tokens, goalsByChannel,
          req, accepted, nextToken, dbFailed, restarted, failedWrite>>

\* A free request slot.
Idle ==
    [pc |-> "idle", kind |-> "none", channel |-> "", goal |-> Undefined,
     tokenInfo |-> NoRec, tokenRes |-> NoRec, userRes |-> NoRec,
     first |-> Undefined, retry |-> Undefined, refreshed |-> NoRec,
     retryToken |-> Undefined,
     metricCalls |-> 0, refreshCalls |-> 0, tokenCalls |-> 0,
     result |-> Null, status |-> Undefined, current |-> Null,
     param |-> "", goalStr |-> <<>>, error |-> FALSE, state |-> <<>>,
     body |-> "", dbError |-> FALSE, prev |-> Undefined,
     metricRes |-> NoRec]

\* ------------------------------------------------------- provider responses
\* POST /oauth2/token: a fresh pair, or a rejection (axios throws on it).
TokenResponses ==
    {[status |-> 400, access_token |-> Undefined, refresh_token |-> Undefined]}
    \cup (IF nextToken <= MaxTokens
          THEN {[status |-> 200, access_token |-> nextToken,
                 refresh_token |-> nextToken]}
          ELSE {})

\* GET /helix/users: one user, no user, or a non-2xx answer.
UserResponses ==
    {[status |-> 200, data |-> <<[id |-> b]>>] : b \in BroadcasterIds}
    \cup {[status |-> 200, data |-> <<>>], [status |-> 401, data |-> <<>>]}

\* GET /helix/subscriptions: `total` and the length of `data` (Missing when
\* the body lacks the field), or a failure.
MetricResponses ==
    {[status |-> 200, total |-> t, data |-> d] :
        t \in {Missing, 0, 3}, d \in {Missing, 2}}
    \cup {[status |-> s, total |-> Missing, data |-> Missing] : s \in {401, 500, NoResponse}}

\* ------------------------------------------------------------------ helpers
\* Variant: the client never rejects (validateStatus accepts every status).
ExchangeThrows_never(res) == FALSE

\* axios rejects the promise for every non-2xx answer.
ExchangeThrows(res) == res.status # 200

\* Variant: `user?.id`, so a response with no user does not throw.
UsersThrows_statusOnly(ures) == ures.status # 200

\* Lines 138-150: axios throws on non-2xx; `user.id` throws when data[0] is
\* undefined.
UsersThrows(ures) == ures.status # 200 \/ Len(ures.data) = 0

UserId(ures) == IF Len(ures.data) > 0 THEN ures.data[1].id ELSE Undefined

\* Variant: every failed request is taken for an expired token.
IsAuthFailure_anyError(res) == res.status # 200

\* err.response?.status === 401
IsAuthFailure(res) == res.status = 401

\* Variant: only the presence of the record is tested.
HasRefreshToken_anyRecord(tokenInfo) == tokenInfo # NoRec

\* !tokenInfo?.refresh_token is false
HasRefreshToken(tokenInfo) ==
    tokenInfo # NoRec /\ tokenInfo.refresh_token # Undefined

\* Variant: `||` in place of `??`, so a total of 0 falls through.
ExtractTotal_or(res) ==
    IF res.total # Missing /\ res.total # 0 THEN res.total
    ELSE IF res.data # Missing /\ res.data # 0 THEN res.data
    ELSE 0

\* res.data.total ?? res.data.data?.length ?? 0
ExtractTotal(res) ==
    IF res.total # Missing THEN res.total
    ELSE IF res.data # Missing THEN res.data
    ELSE 0

\* goalsByChannel[channel]?.goal || 50
DefaultGoal == 50

\* Variant: no fallback when no goal is stored.
GetGoal_noDefault(channel) == goalsByChannel[channel]

\* Line 306.
GetGoal(channel) ==
    IF goalsByChannel[channel] # Undefined THEN goalsByChannel[channel]
    ELSE DefaultGoal

\* res.status(code).send(...) of the OAuth callback.
Send(q, code) == [q EXCEPT !.pc = "done", !.status = code]

\* res.status(code).send(body)
SendBody(q, code, body) == [Send(q, code) EXCEPT !.body = body]

\* Variant: the helper's result goes into the payload as it is.
PayloadCurrent_raw(result) == result

\* The `current` of the JSON payload: 0 when the helper returned null.
PayloadCurrent(result) == IF result = Null THEN 0 ELSE result

\* getCurrentSubsForChannel returns `result`; /api/subgoal answers res.json.
Json(q, result) ==
    [q EXCEPT !.pc = "done", !.result = result, !.status = 200,
              !.current = PayloadCurrent(result), !.body = "json"]

\* res.send / res.json end the handler: the response has left the process
\* before any other handler or continuation runs, so its record is taken off
\* (Reset) before the next step of the program.
Delivered == \A r \in Requests : req[r].pc # "done"


\* --------------------------------------------------------------- startup
InitialTables ==
    {[c \in Channels |-> NoRec],
     [c \in Channels |-> IF c = "foo" THEN Rec(1, Undefined, 1) ELSE NoRec],
     [c \in Channels |-> IF c = "foo" THEN Rec(1, 1, 1) ELSE Rec(1, 1, 2)]}

Init ==
    /\ phase = "initDb"
    /\ DATABASE_URL \in BOOLEAN
    /\ twitch_tokens \in InitialTables
    /\ (~DATABASE_URL => twitch_tokens = [c \in Channels |-> NoRec])
    /\ tokensByChannel = [c \in Channels |-> NoRec]
    /\ goalsByChannel = [c \in Channels |-> Undefined]
    /\ req = [r \in Requests |-> Idle]
    /\ accepted = 0
    /\ nextToken = 2
    /\ dbFailed = FALSE
    /\ restarted = FALSE
    /\ failedWrite = {}

\* Variant: start() has no try/catch around initDb and loadTokens, so the
\* rejection reaches start().catch and the process exits.
StartInitDb_noCatch ==
    /\ phase = "initDb"
    /\ \/ /\ ~DATABASE_URL
          /\ phase' = "listening"
          /\ UNCHANGED dbFailed
       \/ /\ DATABASE_URL
          /\ phase' = "loadTokens"
          /\ UNCHANGED dbFailed
       \/ /\ DATABASE_URL
          /\ phase' = "exited"
          /\ dbFailed' = TRUE
    /\ UNCHANGED <<DATABASE_URL, tokensByChannel, twitch_tokens,
                   goalsByChannel, req, nextToken, accepted,
                   restarted, failedWrite>>

\* start(): without DATABASE_URL, listen at once; with it, run initDb.
StartInitDb ==
    /\ phase = "initDb"
    /\ \/ /\ ~DATABASE_URL
          /\ phase' = "listening"
          /\ UNCHANGED dbFailed
       \/ /\ DATABASE_URL
          /\ phase' = "loadTokens"
          /\ UNCHANGED dbFailed
       \/ /\ DATABASE_URL
          /\ phase' = "listening"
          /\ dbFailed' = TRUE
    /\ UNCHANGED <<DATABASE_URL, tokensByChannel, twitch_tokens,
                   goalsByChannel, req, nextToken, accepted,
                   restarted, failedWrite>>

\* Variant: only the first row of the result is loaded.
LoadedTokens_firstRow ==
    [c \in Channels |->
        IF /\ \E k \in Channels : twitch_tokens[k] # NoRec
           /\ c = ToLowerCase(CHOOSE k \in Channels : twitch_tokens[k] # NoRec)
        THEN twitch_tokens[CHOOSE k \in Channels : twitch_tokens[k] # NoRec]
        ELSE tokensByChannel[c]]

\* loadTokens(): every row into tokensByChannel under its lowercase channel;
\* a failing SELECT is caught and logged.
LoadedTokens ==
    [c \in Channels |->
        IF \E k \in Channels : ToLowerCase(k) = c /\ twitch_tokens[k] # NoRec
        THEN twitch_tokens[CHOOSE k \in Channels :
                             ToLowerCase(k) = c /\ twitch_tokens[k] # NoRec]
        ELSE tokensByChannel[c]]

StartLoadTokens ==
    /\ phase = "loadTokens"
    /\ phase' = "listening"
    /\ \/ /\ tokensByChannel' = LoadedTokens
          /\ UNCHANGED dbFailed
       \/ /\ dbFailed' = TRUE
          /\ UNCHANGED tokensByChannel
    /\ UNCHANGED <<DATABASE_URL, twitch_tokens, goalsByChannel, req,
                   nextToken, accepted,
                   restarted, failedWrite>>

\* The process stops (crash, redeploy) and is started again: the module is
\* evaluated anew (lines 37-38: both in-memory stores are empty), every
\* handler in flight is gone, and start() runs again.  The table, the
\* environment and the provider keep their state.
Restart ==
    /\ Delivered
    /\ phase = "listening"
    /\ phase' = "initDb"
    /\ tokensByChannel' = [c \in Channels |-> NoRec]
    /\ goalsByChannel' = [c \in Channels |-> Undefined]
    /\ req' = [r \in Requests |-> Idle]
    /\ dbFailed' = FALSE
    /\ restarted' = TRUE
    /\ failedWrite' = {}
    /\ UNCHANGED <<DATABASE_URL, twitch_tokens, nextToken, accepted>>

\* ---------------------------------------------------------- OAuth callback
\* The `state` query parameter: <<channel>> stands for the base64url JSON
\* of {channel}; <<>> is a value that does not decode to a channel.
StateParams == {<<c>> : c \in ChannelParams \ {""}} \cup {<<>>}

\* Line 89: the state token /auth/twitch builds for a channel.
EncodeState(channel) == <<channel>>

Decodable(state) == Len(state) = 1

\* Variant: the decoded channel is used as it was given.
DecodeChannel_raw(state) == state[1]

\* Lines 113-114: decoded.channel.toLowerCase()
DecodeChannel(state) == ToLowerCase(state[1])

\* Variant: the state is decoded before `error` is looked at.
EarlyReject_stateFirst(error, state) ==
    IF ~Decodable(state) THEN "Invalid state"
    ELSE IF error THEN "Twitch error"
    ELSE ""

\* Lines 107-117: the body of the 400 answer the callback gives before any
\* outbound call, "" when it goes on.
EarlyReject(error, state) ==
    IF error THEN "Twitch error"
    ELSE IF ~Decodable(state) THEN "Invalid state"
    ELSE ""

\* Lines 104-133: reject on `error`, on an undecodable state; otherwise
\* post the authorization code to the token endpoint and await the answer.
CallbackBegin(r) ==
    /\ Delivered
    /\ phase = "listening"
    /\ req[r].pc = "idle"
    /\ accepted < MaxRequests
    /\ accepted' = accepted + 1
    /\ \E error \in BOOLEAN, state \in StateParams :
         LET q == [Idle EXCEPT !.kind = "callback", !.error = error,
                               !.state = state] IN
         req' = [req EXCEPT ![r] =
                   IF EarlyReject(error, state) # ""
                   THEN SendBody(q, 400, EarlyReject(error, state))
                   ELSE [q EXCEPT !.pc = "cb_token",
                                  !.channel = DecodeChannel(state),
                                  !.tokenCalls = 1]]
    /\ UNCHANGED <<phase, DATABASE_URL, tokensByChannel, twitch_tokens,
                   goalsByChannel, nextToken, dbFailed,
                   restarted, failedWrite>>

\* The identity provider answers a POST /oauth2/token (the code exchange of
\* lines 121-133 or the refresh exchange of lines 187-198); the answer is
\* then in flight until the awaiting handler resumes.
TokenEndpoint(r) ==
    /\ Delivered
    /\ req[r].pc \in {"cb_token", "m_refresh"}
    /\ req[r].tokenRes = NoRec
    /\ \E res \in TokenResponses :
         /\ req' = [req EXCEPT ![r] = [@ EXCEPT !.tokenRes = res]]
         /\ nextToken' = IF res.status = 200 THEN nextToken + 1 ELSE nextToken
    /\ UNCHANGED <<phase, DATABASE_URL, tokensByChannel, twitch_tokens,
                   goalsByChannel, dbFailed, accepted,
                   restarted, failedWrite>>

\* Lines 121-143: the token answer arrives; on success ask for the user.
CallbackToken(r) ==
    /\ Delivered
    /\ req[r].pc = "cb_token"
    /\ req[r].tokenRes # NoRec
    /\ req' = [req EXCEPT ![r] =
                 IF ExchangeThrows(@.tokenRes)
                 THEN SendBody(@, 500, "Failed to complete Twitch OAuth")
                 ELSE [@ EXCEPT !.pc = "cb_users"]]
    /\ UNCHANGED <<phase, DATABASE_URL, tokensByChannel, twitch_tokens,
                   goalsByChannel, nextToken, dbFailed, accepted,
                   restarted, failedWrite>>

\* Lines 138-172: the users answer arrives; write the record in memory,
\* then either issue the INSERT and await it, or (no DATABASE_URL) confirm.
CallbackUsers(r) ==
    /\ Delivered
    /\ req[r].pc = "cb_users"
    /\ \E ures \in UserResponses :
         LET q == [req[r] EXCEPT !.userRes = ures] IN
         IF UsersThrows(ures)
         THEN /\ req' = [req EXCEPT ![r] =
                           SendBody(q, 500, "Failed to complete Twitch OAuth")]
              /\ UNCHANGED tokensByChannel
         ELSE /\ tokensByChannel' =
                    [tokensByChannel EXCEPT ![q.channel] =
                        Rec(q.tokenRes.access_token, q.tokenRes.refresh_token,
                            UserId(ures))]
              /\ req' = [req EXCEPT ![r] =
                           IF DATABASE_URL THEN [q EXCEPT !.pc = "cb_db"]
                           ELSE SendBody(q, 200, "Twitch connected")]
    /\ UNCHANGED <<phase, DATABASE_URL, twitch_tokens, goalsByChannel,
                   nextToken, dbFailed, accepted,
                   restarted, failedWrite>>

\* Variant: the failure of the INSERT is swallowed and the handler confirms.
CallbackDb_confirmAnyway(r) ==
    /\ Delivered
    /\ req[r].pc = "cb_db"
    /\ \/ /\ twitch_tokens' =
                [twitch_tokens EXCEPT ![req[r].channel] =
                    Rec(req[r].tokenRes.access_token,
                        req[r].tokenRes.refresh_token, UserId(req[r].userRes))]
          /\ req' = [req EXCEPT ![r] = SendBody(@, 200, "Twitch connected")]
          /\ UNCHANGED <<dbFailed, failedWrite>>
       \/ /\ dbFailed' = TRUE
          /\ failedWrite' = failedWrite \cup {req[r].channel}
          /\ req' = [req EXCEPT ![r] =
                       SendBody([@ EXCEPT !.dbError = TRUE], 200,
                                "Twitch connected")]
          /\ UNCHANGED twitch_tokens
    /\ UNCHANGED <<phase, DATABASE_URL, tokensByChannel, goalsByChannel,
                   nextToken, accepted,
                   restarted>>

\* Lines 154-176: the upsert is applied and the handler confirms, or the
\* query throws and the handler answers 500.
CallbackDb(r) ==
    /\ Delivered
    /\ req[r].pc = "cb_db"
    /\ \/ /\ twitch_tokens' =
                [twitch_tokens EXCEPT ![req[r].channel] =
                    Rec(req[r].tokenRes.access_token,
                        req[r].tokenRes.refresh_token, UserId(req[r].userRes))]
          /\ req' = [req EXCEPT ![r] = SendBody(@, 200, "Twitch connected")]
          /\ UNCHANGED <<dbFailed, failedWrite>>
       \/ /\ dbFailed' = TRUE
          /\ failedWrite' = failedWrite \cup {req[r].channel}
          /\ req' = [req EXCEPT ![r] =
                       SendBody([@ EXCEPT !.dbError = TRUE], 500,
                                "Failed to complete Twitch OAuth")]
          /\ UNCHANGED twitch_tokens
    /\ UNCHANGED <<phase, DATABASE_URL, tokensByChannel, goalsByChannel,
                   nextToken, accepted,
                   restarted>>

\* ------------------------------------------------- /api/subgoal and helpers
\* Lines 303-308 and 234-254: read the goal, look the channel up, and either
\* answer at once (no tokens) or send the first subscriptions request.
SubgoalBegin(r) ==
    /\ Delivered
    /\ phase = "listening"
    /\ req[r].pc = "idle"
    /\ accepted < MaxRequests
    /\ accepted' = accepted + 1
    /\ \E param \in ChannelParams :
         LET channel == ToLowerCase(IF param = "" THEN "test" ELSE param)
             q == [Idle EXCEPT !.kind = "subgoal", !.channel = channel,
                               !.goal = GetGoal(channel),
                               !.tokenInfo = tokensByChannel[channel]]
         IN req' = [req EXCEPT ![r] =
                      IF q.tokenInfo = NoRec THEN Json(q, Null)
                      ELSE [q EXCEPT !.pc = "m_first", !.metricCalls = 1]]
    /\ UNCHANGED <<phase, DATABASE_URL, tokensByChannel, twitch_tokens,
                   goalsByChannel, nextToken, dbFailed,
                   restarted, failedWrite>>

\* Variant: the answer is handled only while no other handler is suspended
\* at an await (handlers run one after the other).
SubgoalFirst_blocking(r) ==
    /\ Delivered
    /\ req[r].pc = "m_first"
    /\ \A r2 \in Requests \ {r} :
         req[r2].pc \notin {"cb_token", "cb_users", "cb_db", "m_first",
                            "m_refresh", "m_refresh_db", "m_retry"}
    /\ \E res \in MetricResponses :
         LET q == [req[r] EXCEPT !.first = res.status,
                                 !.metricRes = IF res.status = 200 THEN res
                                               ELSE NoRec] IN
         req' = [req EXCEPT ![r] =
                   IF res.status = 200 THEN Json(q, ExtractTotal(res))
                   ELSE IF IsAuthFailure(res)
                   THEN IF HasRefreshToken(q.tokenInfo)
                        THEN [q EXCEPT !.pc = "m_refresh", !.refreshCalls = @ + 1,
                                       !.tokenCalls = @ + 1]
                        ELSE Json([q EXCEPT !.refreshCalls = @ + 1], Null)
                   ELSE Json(q, Null)]
    /\ UNCHANGED <<phase, DATABASE_URL, tokensByChannel, twitch_tokens,
                   goalsByChannel, nextToken, dbFailed, accepted,
                   restarted, failedWrite>>

\* Lines 253-262, 275-276 and 180-198: the first answer arrives.  Success
\* returns the total; a 401 calls refreshAccessToken, which returns null
\* without a refresh token and otherwise posts to the token endpoint; any
\* other failure returns null.
SubgoalFirst(r) ==
    /\ Delivered
    /\ req[r].pc = "m_first"
    /\ \E res \in MetricResponses :
         LET q == [req[r] EXCEPT !.first = res.status,
                                 !.metricRes = IF res.status = 200 THEN res
                                               ELSE NoRec] IN
         req' = [req EXCEPT ![r] =
                   IF res.status = 200 THEN Json(q, ExtractTotal(res))
                   ELSE IF IsAuthFailure(res)
                   THEN IF HasRefreshToken(q.tokenInfo)
                        THEN [q EXCEPT !.pc = "m_refresh", !.refreshCalls = @ + 1,
                                       !.tokenCalls = @ + 1]
                        ELSE Json([q EXCEPT !.refreshCalls = @ + 1], Null)
                   ELSE Json(q, Null)]
    /\ UNCHANGED <<phase, DATABASE_URL, tokensByChannel, twitch_tokens,
                   goalsByChannel, nextToken, dbFailed, accepted,
                   restarted, failedWrite>>

\* The retry of lines 263-264 with the record refreshAccessToken returned.
Retry(q, refreshed) ==
    [q EXCEPT !.pc = "m_retry", !.refreshed = refreshed,
              !.retryToken = refreshed.access_token,
              !.metricCalls = @ + 1]

\* Variant: a rejected refresh drops the channel's record from memory.
SubgoalRefresh_dropOnReject(r) ==
    /\ Delivered
    /\ req[r].pc = "m_refresh"
    /\ req[r].tokenRes # NoRec
    /\ LET q == req[r]
           res == req[r].tokenRes
       IN IF ExchangeThrows(res)
          THEN /\ req' = [req EXCEPT ![r] = Json(q, Null)]
               /\ tokensByChannel' =
                     [tokensByChannel EXCEPT ![q.channel] = NoRec]
          ELSE /\ tokensByChannel' =
                     [tokensByChannel EXCEPT ![q.channel] =
                         [q.tokenInfo EXCEPT
                             !.access_token = res.access_token,
                             !.refresh_token = res.refresh_token]]
               /\ req' = [req EXCEPT ![r] =
                            IF DATABASE_URL
                            THEN [q EXCEPT !.pc = "m_refresh_db"]
                            ELSE Retry(q, tokensByChannel'[q.channel])]
    /\ UNCHANGED <<phase, DATABASE_URL, twitch_tokens, goalsByChannel,
                   nextToken, dbFailed, accepted,
                   restarted, failedWrite>>

\* Lines 186-231: the refresh answer arrives.  A rejection is caught and
\* gives null; success overwrites the in-memory record with the caller's
\* snapshot plus the new pair, then awaits the UPDATE (or, with no
\* DATABASE_URL, returns the stored record and the retry is sent).
SubgoalRefresh(r) ==
    /\ Delivered
    /\ req[r].pc = "m_refresh"
    /\ req[r].tokenRes # NoRec
    /\ LET q == req[r]
           res == req[r].tokenRes
       IN IF ExchangeThrows(res)
          THEN /\ req' = [req EXCEPT ![r] = Json(q, Null)]
               /\ UNCHANGED tokensByChannel
          ELSE /\ tokensByChannel' =
                     [tokensByChannel EXCEPT ![q.channel] =
                         [q.tokenInfo EXCEPT
                             !.access_token = res.access_token,
                             !.refresh_token = res.refresh_token]]
               /\ req' = [req EXCEPT ![r] =
                            IF DATABASE_URL
                            THEN [q EXCEPT !.pc = "m_refresh_db"]
                            ELSE Retry(q, tokensByChannel'[q.channel])]
    /\ UNCHANGED <<phase, DATABASE_URL, twitch_tokens, goalsByChannel,
                   nextToken, dbFailed, accepted,
                   restarted, failedWrite>>

\* UPDATE twitch_tokens SET access_token, refresh_token WHERE channel = $1
UpdateRow(row, res) ==
    IF row = NoRec THEN row
    ELSE [row EXCEPT !.access_token = res.access_token,
                     !.refresh_token = res.refresh_token]

\* Variant: the UPDATE has no WHERE clause.
UpdateTable_noWhere(table, channel, res) ==
    [k \in DOMAIN table |-> UpdateRow(table[k], res)]

\* Lines 211-218: the UPDATE touches the row of `channel` only.
UpdateTable(table, channel, res) ==
    [table EXCEPT ![channel] = UpdateRow(@, res)]

\* Lines 210-230 and 260-264: the UPDATE is applied and refreshAccessToken
\* returns tokensByChannel[channel], or the query throws and it returns null.
SubgoalRefreshDb(r) ==
    /\ Delivered
    /\ req[r].pc = "m_refresh_db"
    /\ \/ /\ twitch_tokens' =
                UpdateTable(twitch_tokens, req[r].channel, req[r].tokenRes)
          /\ req' = [req EXCEPT ![r] = Retry(@, tokensByChannel[req[r].channel])]
          /\ UNCHANGED <<dbFailed, failedWrite>>
       \/ /\ dbFailed' = TRUE
          /\ failedWrite' = failedWrite \cup {req[r].channel}
          /\ req' = [req EXCEPT ![r] = Json([@ EXCEPT !.dbError = TRUE], Null)]
          /\ UNCHANGED twitch_tokens
    /\ UNCHANGED <<phase, DATABASE_URL, tokensByChannel, goalsByChannel,
                   nextToken, accepted,
                   restarted>>

\* Variant: a 401 on the retry refreshes and retries again.
SubgoalRetry_again(r) ==
    /\ Delivered
    /\ req[r].pc = "m_retry"
    /\ \E res \in MetricResponses :
         LET q == [req[r] EXCEPT !.retry = res.status,
                                 !.metricRes = IF res.status = 200 THEN res
                                               ELSE NoRec] IN
         req' = [req EXCEPT ![r] =
                   IF res.status = 200 THEN Json(q, ExtractTotal(res))
                   ELSE IF IsAuthFailure(res) /\ HasRefreshToken(q.refreshed)
                   THEN [q EXCEPT !.pc = "m_refresh", !.tokenRes = NoRec,
                                  !.tokenInfo = q.refreshed,
                                  !.refreshCalls = @ + 1, !.tokenCalls = @ + 1]
                   ELSE Json(q, Null)]
    /\ UNCHANGED <<phase, DATABASE_URL, tokensByChannel, twitch_tokens,
                   goalsByChannel, nextToken, dbFailed, accepted,
                   restarted, failedWrite>>

\* Lines 263-272: the retry's answer arrives; any failure gives null.
SubgoalRetry(r) ==
    /\ Delivered
    /\ req[r].pc = "m_retry"
    /\ \E res \in MetricResponses :
         LET q == [req[r] EXCEPT !.retry = res.status,
                                 !.metricRes = IF res.status = 200 THEN res
                                               ELSE NoRec] IN
         req' = [req EXCEPT ![r] =
                   IF res.status = 200 THEN Json(q, ExtractTotal(res))
                   ELSE Json(q, Null)]
    /\ UNCHANGED <<phase, DATABASE_URL, tokensByChannel, twitch_tokens,
                   goalsByChannel, nextToken, dbFailed, accepted,
                   restarted, failedWrite>>

\* The response has been delivered; the slot is free for the next request.
Reset(r) ==
    /\ req[r].pc = "done"
    /\ req' = [req EXCEPT ![r] = Idle]
    /\ UNCHANGED <<phase, DATABASE_URL, tokensByChannel, twitch_tokens,
                   goalsByChannel, nextToken, dbFailed, accepted,
                   restarted, failedWrite>>

\* ------------------------------------------------------------ /api/setgoal
\* Values of the `goal` parameter, as character sequences; <<>> is absent.
GoalParams == {<<>>, <<"1", "0">>, <<"7">>, <<"-", "5">>, <<"0">>, <<"a", "b">>}

DigitValue(ch) ==
    CASE ch = "0" -> 0 [] ch = "1" -> 1 [] ch = "2" -> 2 [] ch = "3" -> 3
      [] ch = "4" -> 4 [] ch = "5" -> 5 [] ch = "6" -> 6 [] ch = "7" -> 7
      [] ch = "8" -> 8 [] ch = "9" -> 9 [] OTHER -> Missing

\* Value of the longest prefix of digits of s, continuing from acc; Missing
\* when there is no digit at all.
RECURSIVE DigitsPrefix(_, _, _)
DigitsPrefix(s, acc, seen) ==
    IF s = <<>> \/ DigitValue(Head(s)) = Missing
    THEN (IF seen THEN acc ELSE Missing)
    ELSE DigitsPrefix(Tail(s), acc * 10 + DigitValue(Head(s)), TRUE)

\* Variant: only negative goals are rejected (goal < 0).
ParseGoal_allowZero(s) ==
    IF s # <<>> /\ Head(s) = "-" THEN Missing
    ELSE LET n == DigitsPrefix(s, 0, FALSE) IN IF n < 0 THEN Missing ELSE n

\* parseInt(goalStr, 10) with Number.isNaN(goal) || goal <= 0 applied:
\* the parsed goal, or Missing when the goal is rejected.
ParseGoal(s) ==
    IF s # <<>> /\ Head(s) = "-" THEN Missing
    ELSE LET n == DigitsPrefix(s, 0, FALSE) IN IF n <= 0 THEN Missing ELSE n

\* Variant: the goal is added to the one already stored.
StoreGoal_additive(channel, goal) ==
    [goalsByChannel EXCEPT ![channel] = @ + goal]

\* Line 297: goalsByChannel[channel] = { goal }
StoreGoal(channel, goal) == [goalsByChannel EXCEPT ![channel] = goal]

\* Lines 281-300.  `prev` keeps the goal stored for the channel when the
\* request arrived, for the record of the response.
SetGoal(r) ==
    /\ Delivered
    /\ phase = "listening"
    /\ req[r].pc = "idle"
    /\ accepted < MaxRequests
    /\ accepted' = accepted + 1
    /\ \E param \in ChannelParams, goalStr \in GoalParams :
         LET channel == ToLowerCase(param)
             q == [Idle EXCEPT !.kind = "setgoal", !.param = param,
                               !.goalStr = goalStr, !.channel = channel,
                               !.prev = IF channel = "" THEN Undefined
                                        ELSE goalsByChannel[channel]]
         IN IF channel = ""
            THEN /\ req' = [req EXCEPT ![r] = SendBody(q, 400, "Missing channel")]
                 /\ UNCHANGED goalsByChannel
            ELSE IF goalStr = <<>>
            THEN /\ req' = [req EXCEPT ![r] = SendBody(q, 400, "Missing goal")]
                 /\ UNCHANGED goalsByChannel
            ELSE IF ParseGoal(goalStr) = Missing
            THEN /\ req' = [req EXCEPT ![r] =
                              SendBody(q, 400, "Goal must be a positive integer")]
                 /\ UNCHANGED goalsByChannel
            ELSE /\ goalsByChannel' = StoreGoal(channel, ParseGoal(goalStr))
                 /\ req' = [req EXCEPT ![r] =
                              SendBody([q EXCEPT !.goal = ParseGoal(goalStr)],
                                       200, "Sub goal updated")]
    /\ UNCHANGED <<phase, DATABASE_URL, tokensByChannel, twitch_tokens,
                   nextToken, dbFailed,
                   restarted, failedWrite>>

\* ------------------------------------------------- /health and /auth/twitch
\* Lines 76-78.
Health(r) ==
    /\ Delivered
    /\ phase = "listening"
    /\ req[r].pc = "idle"
    /\ accepted < MaxRequests
    /\ accepted' = accepted + 1
    /\ req' = [req EXCEPT ![r] =
                 SendBody([Idle EXCEPT !.kind = "health"], 200, "OK")]
    /\ UNCHANGED <<phase, DATABASE_URL, tokensByChannel, twitch_tokens,
                   goalsByChannel, nextToken, dbFailed,
                   restarted, failedWrite>>

\* Lines 81-101: 400 without a channel, otherwise a redirect to the
\* provider that carries the state token.
AuthStart(r) ==
    /\ Delivered
    /\ phase = "listening"
    /\ req[r].pc = "idle"
    /\ accepted < MaxRequests
    /\ accepted' = accepted + 1
    /\ \E param \in ChannelParams :
         LET q == [Idle EXCEPT !.kind = "authstart", !.param = param] IN
         req' = [req EXCEPT ![r] =
                   IF param = ""
                   THEN SendBody(q, 400, "Missing channel query param")
                   ELSE SendBody([q EXCEPT !.state = EncodeState(param)],
                                 302, "redirect")]
    /\ UNCHANGED <<phase, DATABASE_URL, tokensByChannel, twitch_tokens,
                   goalsByChannel, nextToken, dbFailed,
                   restarted, failedWrite>>

\* ------------------------------------------------------------ specification
Next ==
    \/ StartInitDb
    \/ StartLoadTokens
    \/ \E r \in Requests :
         \/ SetGoal(r)
         \/ Health(r)
         \/ AuthStart(r)
         \/ TokenEndpoint(r)
         \/ CallbackBegin(r)
         \/ CallbackToken(r)
         \/ CallbackUsers(r)
         \/ CallbackDb(r)
         \/ SubgoalBegin(r)
         \/ SubgoalFirst(r)
         \/ SubgoalRefresh(r)
         \/ SubgoalRefreshDb(r)
         \/ SubgoalRetry(r)
         \/ Reset(r)

Spec == Init /\ [][Next]_vars

\* Every outbound call and every query returns: a handler suspended at an
\* await is eventually resumed by the event loop.
FairSpec ==
    /\ Spec
    /\ WF_vars(StartInitDb)
    /\ WF_vars(StartLoadTokens)
    /\ \A r \in Requests :
         /\ WF_vars(TokenEndpoint(r))
         /\ WF_vars(CallbackToken(r))
         /\ WF_vars(CallbackUsers(r))
         /\ WF_vars(CallbackDb(r))
         /\ WF_vars(SubgoalFirst(r))
         /\ WF_vars(SubgoalRefresh(r))
         /\ WF_vars(SubgoalRefreshDb(r))
         /\ WF_vars(SubgoalRetry(r))
         /\ WF_vars(Reset(r))

\* The channel whose outbound calls may never return.
HungChannel == "foo"

\* A call or query made for another channel than HungChannel returns, and
\* the event loop then resumes the handler that awaits it; nothing is
\* assumed of the calls made for HungChannel.
HangSpec ==
    /\ Spec
    /\ WF_vars(StartInitDb)
    /\ WF_vars(StartLoadTokens)
    /\ \A r \in Requests :
         /\ WF_vars(req[r].channel # HungChannel /\ TokenEndpoint(r))
         /\ WF_vars(req[r].channel # HungChannel /\ CallbackToken(r))
         /\ WF_vars(req[r].channel # HungChannel /\ CallbackUsers(r))
         /\ WF_vars(req[r].channel # HungChannel /\ CallbackDb(r))
         /\ WF_vars(req[r].channel # HungChannel /\ SubgoalFirst(r))
         /\ WF_vars(req[r].channel # HungChannel /\ SubgoalRefresh(r))
         /\ WF_vars(req[r].channel # HungChannel /\ SubgoalRefreshDb(r))
         /\ WF_vars(req[r].channel # HungChannel /\ SubgoalRetry(r))
         /\ WF_vars(Reset(r))

\* The program with stops and restarts of the process.
RestartNext == Next \/ Restart

RestartSpec == Init /\ [][RestartNext]_vars

\* ------------------------------------------------------------------ claims
\* A request of channel c is between its first await and its response.
InFlight(c) ==
    \E r \in Requests : req[r].channel = c /\ req[r].pc \notin {"idle", "done"}

\* The identity fetch failed: a non-2xx answer, or an answer with no user.
IdentityFailed(ures) == ures.status # 200 \/ ures.data = <<>>

\* C1: when the OAuth callback confirms (status 200) with persistence
\* enabled and no query of the run having failed, the in-memory record and
\* the durable row of its channel carry the same broadcaster id, access
\* token and refresh token.
C1_CallbackStoresAgree ==
    [][\A r \in Requests :
         (/\ req[r].pc = "cb_db"
          /\ req'[r].pc = "done"
          /\ req'[r].status = 200
          /\ DATABASE_URL
          /\ ~dbFailed')
         => tokensByChannel'[req[r].channel] = twitch_tokens'[req[r].channel]]_vars

\* C2: when the identity fetch of a callback fails after a successful
\* token exchange, that step changes neither store and answers 500; and no
\* stored record ever lacks its broadcaster id.
C2_NoHalfWrittenRecord ==
    /\ [](\A c \in Channels :
            /\ tokensByChannel[c] # NoRec
                 => tokensByChannel[c].broadcaster_id # Undefined
            /\ twitch_tokens[c] # NoRec
                 => twitch_tokens[c].broadcaster_id # Undefined)
    /\ [][\A r \in Requests :
            (/\ req[r].pc = "cb_users"
             /\ req'[r].pc # "cb_users"
             /\ IdentityFailed(req'[r].userRes))
            => /\ tokensByChannel' = tokensByChannel
               /\ twitch_tokens' = twitch_tokens
               /\ req'[r].pc = "done"
               /\ req'[r].status = 500]_vars

\* A callback ended in 500 on an answer with no user, for a channel that
\* already had a record.
C2_Witness ==
    \E r \in Requests :
        /\ req[r].pc = "done"
        /\ req[r].kind = "callback"
        /\ req[r].status = 500
        /\ req[r].userRes # NoRec
        /\ req[r].userRes.status = 200
        /\ req[r].userRes.data = <<>>
        /\ tokensByChannel[req[r].channel] # NoRec

\* The positions at which a metric read awaits an outbound call.
AwaitingMetric == {"m_first", "m_refresh", "m_refresh_db", "m_retry"}

\* C3: one /api/subgoal read sends at most two subscriptions requests,
\* calls refreshAccessToken at most once and posts to the token endpoint at
\* most once; and, every outbound call returning, each read ends with a
\* result that is an integer or null: a read leaves its awaits only by
\* answering, and from some point on no read is awaiting (the run accepts
\* finitely many requests).
C3_AtMostTwoMetricRequests ==
    /\ [](\A r \in Requests :
            /\ req[r].metricCalls <= 2
            /\ req[r].refreshCalls <= 1
            /\ req[r].tokenCalls <= 1)
    /\ [](\A r \in Requests :
            (req[r].pc = "done" /\ req[r].kind = "subgoal") =>
                req[r].result \in Nat \cup {Null})
    /\ [][\A r \in Requests :
            (/\ req[r].pc \in AwaitingMetric
             /\ req'[r].pc \notin AwaitingMetric)
            => req'[r].pc = "done" /\ req'[r].kind = "subgoal"]_vars
    /\ <>[](\A r \in Requests : req[r].pc \notin AwaitingMetric)

\* A read whose retry was answered 401 as well has ended.
C3_Witness ==
    \E r \in Requests :
        /\ req[r].pc = "done"
        /\ req[r].first = 401
        /\ req[r].retry = 401
        /\ req[r].metricCalls = 2
        /\ req[r].refreshCalls = 1

\* C4: refreshAccessToken is called exactly when the first subscriptions
\* request was answered 401; the retry is sent exactly when the refresh
\* returned a record, and with that record's access token, which differs
\* from the one first used; a read with no tokens, a non-401 failure, a
\* refresh that returned null or a failed retry ends with null, without
\* any further outbound call.
C4_RefreshOnlyOn401 ==
    \A r \in Requests :
        LET q == req[r]
            retried == q.metricCalls = 2
        IN q.kind = "subgoal" =>
             /\ (q.refreshCalls = 1) <=> (q.first = 401)
             /\ retried <=> (q.refreshed # NoRec)
             /\ retried =>
                  /\ q.tokenRes # NoRec /\ q.tokenRes.status = 200
                  /\ q.retryToken = q.refreshed.access_token
                  /\ q.retryToken # q.tokenInfo.access_token
             /\ q.tokenInfo = NoRec =>
                  /\ q.pc = "done" /\ q.result = Null
                  /\ q.metricCalls = 0 /\ q.tokenCalls = 0
             /\ q.first \in {500, NoResponse} =>
                  /\ q.pc = "done" /\ q.result = Null
                  /\ q.metricCalls = 1 /\ q.tokenCalls = 0
             /\ (q.pc = "done" /\ q.first = 401 /\ q.refreshed = NoRec) =>
                  /\ q.result = Null /\ q.metricCalls = 1
             /\ (retried /\ q.retry \notin {Undefined, 200}) =>
                  /\ q.pc = "done" /\ q.result = Null

\* A read was retried with a refreshed token and got its total.
C4_Witness ==
    \E r \in Requests :
        /\ req[r].pc = "done"
        /\ req[r].first = 401
        /\ req[r].retry = 200
        /\ req[r].retryToken # Undefined
        /\ req[r].result # Null

\* C5: refreshAccessToken called with no record, or with a record whose
\* refresh token is empty, returns null in the same step, sends nothing and
\* leaves both stores as they are.
C5_RefreshWithoutToken ==
    [][\A r \in Requests :
         (/\ req[r].pc = "m_first"
          /\ req'[r].refreshCalls = 1
          /\ \/ req[r].tokenInfo = NoRec
             \/ req[r].tokenInfo.refresh_token = Undefined)
         => /\ req'[r].pc = "done"
            /\ req'[r].result = Null
            /\ req'[r].tokenCalls = 0
            /\ req'[r].metricCalls = req[r].metricCalls
            /\ tokensByChannel' = tokensByChannel
            /\ twitch_tokens' = twitch_tokens]_vars

\* A 401 led to a refresh attempt on a record with an empty refresh token.
C5_Witness ==
    \E r \in Requests :
        /\ req[r].pc = "done"
        /\ req[r].refreshCalls = 1
        /\ req[r].tokenInfo # NoRec
        /\ req[r].tokenInfo.refresh_token = Undefined
        /\ req[r].tokenCalls = 0

\* C6: the in-memory write of a successful refresh leaves the channel's
\* stored broadcaster id as it was just before the write.
C6_RefreshKeepsBroadcasterId ==
    [][\A r \in Requests :
         (/\ req[r].pc = "m_refresh"
          /\ req'[r].pc \in {"m_refresh_db", "m_retry"})
         => tokensByChannel'[req[r].channel].broadcaster_id
              = tokensByChannel[req[r].channel].broadcaster_id]_vars

\* C7: when the provider rejects the refresh exchange, refreshAccessToken
\* returns null (the read ends with null, nothing is thrown) and that step
\* changes neither store.
C7_RejectedRefreshKeepsRecord ==
    [][\A r \in Requests :
         (/\ req[r].pc = "m_refresh"
          /\ req[r].tokenRes # NoRec
          /\ req[r].tokenRes.status # 200
          /\ req'[r] # req[r])
         => /\ req'[r].pc = "done"
            /\ req'[r].result = Null
            /\ req'[r].refreshed = NoRec
            /\ tokensByChannel' = tokensByChannel
            /\ twitch_tokens' = twitch_tokens]_vars

\* A read ended after the provider rejected its refresh exchange.
C7_Witness ==
    \E r \in Requests :
        /\ req[r].pc = "done"
        /\ req[r].refreshCalls = 1
        /\ req[r].tokenRes # NoRec
        /\ req[r].tokenRes.status = 400
        /\ req[r].result = Null
        /\ tokensByChannel[req[r].channel] = req[r].tokenInfo

\* C8: with persistence enabled and no query having failed, a channel with
\* no request in flight has the same record in memory and in the table.
C8_StoresConverge ==
    (DATABASE_URL /\ ~dbFailed /\ phase = "listening") =>
        \A c \in Channels :
            ~InFlight(c) => tokensByChannel[c] = twitch_tokens[c]

\* C9: token numbers follow the order in which the provider issues them; a
\* write to tokensByChannel never replaces an access token by an older one.
C9_NewestTokenKept ==
    [][\A c \in Channels :
         (tokensByChannel[c] # NoRec /\ tokensByChannel'[c] # NoRec)
         => tokensByChannel'[c].access_token >= tokensByChannel[c].access_token]_vars

\* C10: /api/subgoal always answers 200 with an integer `current` and a
\* positive integer `goal`; `current` is 0 when the helper returned null and
\* the helper's result otherwise; a read for a channel with no tokens and no
\* goal answers {current: 0, goal: 50}.
C10_PayloadNeverNull ==
    /\ [](\A r \in Requests :
            (req[r].pc = "done" /\ req[r].kind = "subgoal") =>
                /\ req[r].status = 200
                /\ req[r].current \in Nat
                /\ req[r].goal \in Nat \ {0}
                /\ req[r].result = Null => req[r].current = 0
                /\ req[r].result # Null => req[r].current = req[r].result)
    /\ [][\A r \in Requests :
            (/\ req[r].pc = "idle"
             /\ req'[r].kind = "subgoal"
             /\ tokensByChannel[req'[r].channel] = NoRec
             /\ goalsByChannel[req'[r].channel] = Undefined)
            => /\ req'[r].pc = "done"
               /\ req'[r].current = 0
               /\ req'[r].goal = 50]_vars

\* A read ended with current 0 after a failed retry, with a goal that had
\* been set.
C10_Witness ==
    \E r \in Requests :
        /\ req[r].pc = "done"
        /\ req[r].kind = "subgoal"
        /\ req[r].retry = 500
        /\ req[r].result = Null
        /\ req[r].current = 0
        /\ req[r].goal = 10

\* The positive integer a goal parameter stands for, Missing when it stands
\* for none (absent, not numeric, zero, negative).
PositiveGoal(goalStr) ==
    CASE goalStr = <<"1", "0">> -> 10
      [] goalStr = <<"7">> -> 7
      [] OTHER -> Missing

\* C11: a setGoal request with a missing or empty channel, a missing goal, or
\* a goal that is not a positive integer (not numeric, zero, negative) is
\* answered 400 and leaves the goal of every channel as it was; a request
\* with a channel c and a positive integer g is answered 200, replaces
\* whatever goal c had, and getGoal(c) is g right after it.
C11_SetGoalValidation ==
    [][\A r \in Requests :
        (req[r].pc = "idle" /\ req'[r].kind = "setgoal") =>
            LET q == req'[r]
                c == ToLowerCase(q.param)
                g == PositiveGoal(q.goalStr)
            IN IF q.param = "" \/ q.goalStr = <<>> \/ g = Missing
               THEN /\ q.status = 400
                    /\ goalsByChannel' = goalsByChannel
               ELSE /\ q.status = 200
                    /\ goalsByChannel' = [goalsByChannel EXCEPT ![c] = g]
                    /\ \A k \in Channels : k = c => GetGoal(k)' = g]_vars

\* A negative goal was refused for a channel that keeps the goal set before.
C11_Witness ==
    \E r \in Requests :
        /\ req[r].kind = "setgoal"
        /\ req[r].status = 400
        /\ req[r].goalStr = <<"-", "5">>
        /\ req[r].channel = "foo"
        /\ goalsByChannel["foo"] = 7

\* C12: getGoal(c) is 50 for a channel whose goal was never set in this
\* run and otherwise the value of the last accepted setGoal for c (the stored
\* goal changes only by an accepted setGoal for that channel, to its value);
\* the goal a metric read reports is getGoal of its channel and is always a
\* positive integer.
C12_GoalDefaultAndLastSet ==
    /\ [](\A c \in Channels :
            /\ GetGoal(c) \in Nat \ {0}
            /\ goalsByChannel[c] = Undefined => GetGoal(c) = 50
            /\ goalsByChannel[c] # Undefined => GetGoal(c) = goalsByChannel[c])
    /\ [](\A r \in Requests :
            req[r].kind = "subgoal" => req[r].goal \in Nat \ {0})
    /\ [][\A c \in Channels :
            goalsByChannel'[c] # goalsByChannel[c] =>
                \E r \in Requests :
                    /\ req[r].pc = "idle"
                    /\ req'[r].kind = "setgoal"
                    /\ req'[r].status = 200
                    /\ ToLowerCase(req'[r].param) = c
                    /\ goalsByChannel'[c] = PositiveGoal(req'[r].goalStr)]_vars
    /\ [][\A r \in Requests :
            (req[r].pc = "idle" /\ req'[r].kind = "subgoal") =>
                req'[r].goal = GetGoal(req'[r].channel)]_vars

\* A metric read of a channel with no goal reports 50 after a goal was set
\* for the other channel.
C12_Witness ==
    \E r \in Requests :
        /\ req[r].kind = "subgoal"
        /\ req[r].pc = "done"
        /\ req[r].channel = "test"
        /\ req[r].goal = 50
        /\ goalsByChannel["foo"] = 10

\* C13: setGoal is idempotent: a setGoal(c, g) arriving when the goal of c
\* is already g (the state an earlier setGoal(c, g) leaves) is answered 200
\* and leaves every goal as it was, with getGoal(c) = g.
C13_SetGoalIdempotent ==
    [][\A r \in Requests :
        (/\ req[r].pc = "idle"
         /\ req'[r].kind = "setgoal"
         /\ req'[r].param # ""
         /\ PositiveGoal(req'[r].goalStr) # Missing
         /\ goalsByChannel[ToLowerCase(req'[r].param)]
              = PositiveGoal(req'[r].goalStr))
        => /\ req'[r].status = 200
           /\ goalsByChannel' = goalsByChannel
           /\ \A k \in Channels :
                k = ToLowerCase(req'[r].param) =>
                    GetGoal(k)' = PositiveGoal(req'[r].goalStr)]_vars

\* The second of two setGoal requests with the same channel and goal has
\* been answered.
C13_Witness ==
    \E r \in Requests :
        /\ req[r].kind = "setgoal"
        /\ req[r].status = 200
        /\ req[r].prev = req[r].goal
        /\ goalsByChannel[req[r].channel] = req[r].goal

\* The state parameter is one /auth/twitch issues for some channel.
IssuedState(state) == \E p \in ChannelParams \ {""} : state = EncodeState(p)

\* C14: the callback rejects early and without side effects: with the
\* provider's `error` parameter it answers 400 with the provider's message,
\* and without it but with a state that decodes to no channel it answers 400
\* "Invalid state"; in both cases no outbound call is made and no store
\* changes.  After a valid state every failure (token exchange, identity
\* fetch, durable write) is answered 500 with the generic message.
C14_CallbackRejections ==
    /\ [][\A r \in Requests :
            (req[r].pc = "idle" /\ req'[r].kind = "callback") =>
                LET q == req'[r] IN
                IF q.error \/ ~IssuedState(q.state)
                THEN /\ q.pc = "done"
                     /\ q.status = 400
                     /\ q.body = (IF q.error THEN "Twitch error"
                                  ELSE "Invalid state")
                     /\ q.tokenCalls = 0
                     /\ q.tokenRes = NoRec /\ q.userRes = NoRec
                     /\ UNCHANGED <<tokensByChannel, twitch_tokens,
                                    goalsByChannel, nextToken, dbFailed>>
                ELSE q.pc = "cb_token" /\ q.tokenCalls = 1]_vars
    /\ [](\A r \in Requests :
            (req[r].kind = "callback" /\ req[r].pc = "done"
                /\ req[r].tokenCalls = 1) =>
               IF \/ req[r].tokenRes.status # 200
                  \/ (req[r].userRes # NoRec /\ IdentityFailed(req[r].userRes))
                  \/ req[r].dbError
               THEN /\ req[r].status = 500
                    /\ req[r].body = "Failed to complete Twitch OAuth"
               ELSE req[r].status = 200)

\* The provider's error was reported together with a state issued for a
\* channel whose record and row stay as they were.
C14_Witness ==
    \E r \in Requests :
        /\ req[r].kind = "callback"
        /\ req[r].error
        /\ req[r].state = EncodeState("Foo")
        /\ req[r].status = 400
        /\ tokensByChannel["foo"] # NoRec
        /\ tokensByChannel["foo"] = twitch_tokens["foo"]

C17_LoadBeforeListening ==
    /\ [][(phase = "loadTokens" /\ phase' = "listening" /\ ~dbFailed') =>
            \A c \in Channels : tokensByChannel'[c] = twitch_tokens[c]]_vars
    /\ [](phase # "listening" =>
            \A r \in Requests : req[r].pc = "idle")
    /\ [][\A r \in Requests :
            (req[r].pc = "idle" /\ req'[r].pc # "idle") =>
                phase = "listening"]_vars
    /\ [][(phase' = "listening" /\ phase # "listening"
                /\ DATABASE_URL /\ ~dbFailed') =>
            phase = "loadTokens"]_vars

\* After a restart a metric read of "test" works with the record a callback
\* persisted before the restart.
C17_Witness ==
    /\ restarted
    /\ \E r \in Requests :
        /\ req[r].kind = "subgoal"
        /\ req[r].channel = "test"
        /\ req[r].pc = "m_first"
        /\ req[r].tokenInfo = twitch_tokens["test"]
        /\ req[r].tokenInfo # NoRec
        /\ req[r].tokenInfo.access_token >= 2

\* A refresh of request r has written its new pair in memory and r has not
\* answered yet.
Refreshed(r) ==
    /\ req[r].kind = "subgoal"
    /\ req[r].pc \in {"m_refresh_db", "m_retry"}
    /\ req[r].refreshCalls = 1
    /\ req[r].tokenRes # NoRec
    /\ req[r].tokenRes.status = 200

\* C18: channel isolation: no step of a callback or of a metric read (its
\* refresh included) for channel A changes the TokenCache entry or the
\* CredentialStore row of another channel B, under any interleaving; the
\* step of a refresh that writes in memory stores its own new pair under its
\* own channel, and two concurrent refreshes for different channels both
\* have their own channel's new pair stored.
C18_ChannelIsolation ==
    /\ [][\A r \in Requests :
            (req'[r] # req[r]
                /\ (req[r].kind \in {"callback", "subgoal"}
                       \/ req'[r].kind \in {"callback", "subgoal"})) =>
                \A b \in Channels :
                    (b # req[r].channel /\ b # req'[r].channel) =>
                        /\ tokensByChannel'[b] = tokensByChannel[b]
                        /\ twitch_tokens'[b] = twitch_tokens[b]]_vars
    /\ [][\A r \in Requests : \A c \in Channels :
            (/\ req[r].pc = "m_refresh"
             /\ req[r].channel = c
             /\ req'[r].pc \in {"m_refresh_db", "m_retry"})
            => /\ tokensByChannel'[c].access_token = req[r].tokenRes.access_token
               /\ tokensByChannel'[c].refresh_token = req[r].tokenRes.refresh_token]_vars
    /\ [](\A r1, r2 \in Requests :
            (/\ Refreshed(r1) /\ Refreshed(r2)
             /\ req[r1].channel # req[r2].channel
             /\ accepted = 2)
            => /\ tokensByChannel[req[r1].channel].access_token
                    = req[r1].tokenRes.access_token
               /\ tokensByChannel[req[r2].channel].access_token
                    = req[r2].tokenRes.access_token
               /\ \A r \in {r1, r2} :
                    req[r].pc = "m_retry" /\ DATABASE_URL /\ ~dbFailed =>
                        twitch_tokens[req[r].channel].access_token
                            = req[r].tokenRes.access_token)

\* Two refreshes in flight together, for "foo" and for "test", have both
\* written their own pair in memory and in the table.
C18_Witness ==
    \E r1, r2 \in Requests :
        /\ Refreshed(r1) /\ Refreshed(r2)
        /\ req[r1].channel = "foo" /\ req[r2].channel = "test"
        /\ req[r1].pc = "m_retry" /\ req[r2].pc = "m_retry"
        /\ DATABASE_URL /\ ~dbFailed
        /\ twitch_tokens["foo"].access_token = req[r1].tokenRes.access_token
        /\ twitch_tokens["test"].access_token = req[r2].tokenRes.access_token
        /\ tokensByChannel["foo"].access_token = req[r1].tokenRes.access_token
        /\ tokensByChannel["test"].access_token = req[r2].tokenRes.access_token

\* C19 as stated: between a durable write that failed for a channel and the
\* next restart, TokenCache and CredentialStore differ for that channel.
C19_DivergentUntilRestart ==
    [](\A c \in failedWrite : tokensByChannel[c] # twitch_tokens[c])

\* C19, amended: when the durable write of a callback or of a refresh
\* throws, the operation reports failure (500 for the callback, null for the
\* refresh) and the failing step changes neither store, so the in-memory
\* write made before it stays and the row is the one the table had.  Nothing
\* reconciles the two afterwards except a token write of a request for that
\* channel or a start of the process: a reload that succeeds leaves
\* TokenCache equal to CredentialStore.
C19_FailedWriteLeavesStores ==
    /\ [][\A r \in Requests :
            (req[r].pc \in {"cb_db", "m_refresh_db"} /\ req'[r].dbError) =>
                /\ req'[r].pc = "done"
                /\ req[r].kind = "callback" => req'[r].status = 500
                /\ req[r].kind = "subgoal" => req'[r].result = Null
                /\ tokensByChannel' = tokensByChannel
                /\ twitch_tokens' = twitch_tokens
                /\ req[r].channel \in failedWrite']_vars
    /\ [][\A r \in Requests :
            (/\ req[r].pc \in {"cb_db", "m_refresh_db"}
             /\ req'[r].pc \in {"done", "m_retry"}
             /\ ~req'[r].dbError)
            => failedWrite' = failedWrite]_vars
    /\ [][\A c \in Channels :
            (\/ tokensByChannel'[c] # tokensByChannel[c]
             \/ twitch_tokens'[c] # twitch_tokens[c])
            => \/ phase # "listening"
               \/ phase' # "listening"
               \/ \E r \in Requests :
                    /\ req[r].channel = c
                    /\ req[r].pc \in {"cb_users", "cb_db",
                                      "m_refresh", "m_refresh_db"}]_vars
    /\ [][(phase = "loadTokens" /\ phase' = "listening" /\ ~dbFailed') =>
            /\ tokensByChannel' = twitch_tokens
            /\ failedWrite' = {}]_vars

\* A callback was answered 500 after its INSERT threw: TokenCache holds its
\* new record, the table still has the row of an earlier authorization.
C19_Witness ==
    \E r \in Requests :
        /\ req[r].kind = "callback"
        /\ req[r].dbError
        /\ req[r].status = 500
        /\ req[r].channel \in failedWrite
        /\ tokensByChannel[req[r].channel].access_token
             = req[r].tokenRes.access_token
        /\ twitch_tokens[req[r].channel] # NoRec
        /\ twitch_tokens[req[r].channel] # tokensByChannel[req[r].channel]

\* The next step of the metric read of slot r: its awaited answer arriving.
SubgoalStep(r) ==
    \/ TokenEndpoint(r) \/ SubgoalFirst(r) \/ SubgoalRefresh(r)
    \/ SubgoalRefreshDb(r) \/ SubgoalRetry(r)

\* C20: outbound calls for channel "foo" that never return block only the
\* requests that await them.  Health checks, setGoal requests, /auth/twitch
\* requests and metric reads of a channel with no tokens are answered in the
\* step that accepts them, and a free slot accepts them whatever the other
\* requests are waiting for; and, the calls for the other channels
\* returning, from some point on every metric read still awaiting is one of
\* "foo": each read of another channel has been answered.
C20_HungCallBlocksOnlyItsWaiters ==
    /\ [](\A r \in Requests :
            /\ req[r].kind \in {"health", "setgoal", "authstart"} =>
                    req[r].pc = "done" /\ req[r].status # Undefined
            /\ (req[r].kind = "subgoal" /\ req[r].tokenInfo = NoRec) =>
                    req[r].pc = "done" /\ req[r].status = 200)
    /\ [](\A r \in Requests :
            (/\ phase = "listening"
             /\ Delivered
             /\ accepted < MaxRequests
             /\ req[r].pc = "idle")
            => /\ ENABLED Health(r)
               /\ ENABLED SetGoal(r)
               /\ ENABLED SubgoalBegin(r))
    /\ [](\A r \in Requests :
            (Delivered /\ req[r].pc \in AwaitingMetric) =>
                ENABLED SubgoalStep(r))
    /\ <>[](\A r \in Requests :
              req[r].pc \in AwaitingMetric => req[r].channel = HungChannel)

\* A metric read of "test" has been answered with a count while a read of
\* "foo" is still waiting for its first answer.
C20_Witness ==
    \E r1, r2 \in Requests :
        /\ req[r1].kind = "subgoal"
        /\ req[r1].channel = HungChannel
        /\ req[r1].pc = "m_first"
        /\ req[r2].kind = "subgoal"
        /\ req[r2].channel = "test"
        /\ req[r2].pc = "done"
        /\ req[r2].first = 200
        /\ req[r2].result = 3

\* C21: for every successful subscriptions response the metric returned is
\* the `total` field when the body has one (0 included), otherwise the
\* number of items of `data`, otherwise 0; the rule is the same for the
\* first request and for the retry, and a read returns a count only from a
\* successful response.
C21_MetricExtraction ==
    [](\A r \in Requests :
        (req[r].kind = "subgoal" /\ req[r].pc = "done") =>
            LET last == IF req[r].retry # Undefined THEN req[r].retry
                        ELSE req[r].first
                res == req[r].metricRes
            IN /\ (res # NoRec) <=> (last = 200)
               /\ res = NoRec => req[r].result = Null
               /\ res # NoRec =>
                    /\ res.total # Missing => req[r].result = res.total
                    /\ (res.total = Missing /\ res.data # Missing) =>
                            req[r].result = res.data
                    /\ (res.total = Missing /\ res.data = Missing) =>
                            req[r].result = 0)

\* A retry was answered with total 0 and two items: the read returned 0.
C21_Witness ==
    \E r \in Requests :
        /\ req[r].kind = "subgoal"
        /\ req[r].pc = "done"
        /\ req[r].first = 401
        /\ req[r].retry = 200
        /\ req[r].metricRes # NoRec
        /\ req[r].metricRes.total = 0
        /\ req[r].metricRes.data = 2
        /\ req[r].result = 0

\* C22: a metric read changes credentials only through a successful
\* refresh: a step of a read that changes TokenCache or CredentialStore is
\* the in-memory write or the UPDATE of a refresh whose first request was
\* answered 401 and whose exchange succeeded, so a read whose first request
\* succeeds or fails otherwise, or whose refresh the provider rejects,
\* changes neither store with any of its steps.  No step of a setGoal (nor
\* the goal lookup of a read) changes TokenCache or CredentialStore, and no
\* step of a callback or of a read changes GoalStore.
C22_FrameEffects ==
    /\ [][\A r \in Requests :
            (/\ req'[r] # req[r]
             /\ (req[r].kind = "subgoal" \/ req'[r].kind = "subgoal")
             /\ (tokensByChannel' # tokensByChannel
                    \/ twitch_tokens' # twitch_tokens))
            => /\ req[r].pc \in {"m_refresh", "m_refresh_db"}
               /\ req[r].first = 401
               /\ req[r].tokenRes # NoRec
               /\ req[r].tokenRes.status = 200]_vars
    /\ [](\A r \in Requests :
            (/\ req[r].kind = "subgoal"
             /\ req[r].pc = "done"
             /\ \/ req[r].first # 401
                \/ (req[r].tokenRes # NoRec /\ req[r].tokenRes.status # 200))
            => /\ req[r].refreshed = NoRec
               /\ ~req[r].dbError
               /\ req[r].metricCalls <= 1)
    /\ [][\A r \in Requests :
            (req'[r] # req[r] /\ req'[r].kind = "setgoal") =>
                /\ tokensByChannel' = tokensByChannel
                /\ twitch_tokens' = twitch_tokens]_vars
    /\ [][\A r \in Requests :
            (req[r].pc = "idle" /\ req'[r].kind = "subgoal") =>
                /\ tokensByChannel' = tokensByChannel
                /\ twitch_tokens' = twitch_tokens
                /\ goalsByChannel' = goalsByChannel]_vars
    /\ [][\A r \in Requests :
            (/\ req'[r] # req[r]
             /\ (req[r].kind \in {"callback", "subgoal"}
                    \/ req'[r].kind \in {"callback", "subgoal"}))
            => goalsByChannel' = goalsByChannel]_vars

\* A read whose first request failed with a 500 has ended: the channel's
\* record and row are the ones it started with, and the goal set before it
\* is still stored.
C22_Witness ==
    \E r \in Requests :
        /\ req[r].kind = "subgoal"
        /\ req[r].pc = "done"
        /\ req[r].first = 500
        /\ req[r].result = Null
        /\ req[r].goal = 7
        /\ goalsByChannel[req[r].channel] = 7
        /\ req[r].tokenInfo # NoRec
        /\ tokensByChannel[req[r].channel] = req[r].tokenInfo
        /\ twitch_tokens[req[r].channel] = req[r].tokenInfo

====
